---- MODULE Spec2Model ----
(***************************************************************************)
(* Model of bugFinder.py: a two-phase search for a multiline pattern in a  *)
(* text file.  Phase one (analyzeLandscape) records, per pattern line, the *)
(* positions where that line occurs in the landscape; phase two            *)
(* (detectPattern) chains the recorded occurrences over consecutive lines  *)
(* and reserves the characters of every complete chain.                    *)
(*                                                                         *)
(* Text is a sequence of one-character strings.  Lines are numbered from   *)
(* 1 and columns from 1, as in the source; pattern parts are identified by *)
(* their 1-based position in BugFinder.pattern (the source's 0-based       *)
(* list index plus one).                                                   *)
(***************************************************************************)
EXTENDS Integers, Sequences, FiniteSets, TLC

VARIABLES
    patternFile,     \* text of the pattern file
    landscapeFile,   \* text of the landscape file
    pattern,         \* BugFinder.pattern: sequence of PatternPart
    patternSet,      \* BugFinder.patternSet
    matches,         \* BugFinder.matches
    matchParts,      \* BugFinder.matchParts: sequence of occurrence lists
    usedCharacters,  \* BugFinder.usedCharacters.list, as a set of <<line, column>>
    pc,              \* "idle", or "detect" while detectPattern's loop is running
    cursor,          \* detectPattern: index of the next first-part occurrence to evaluate
    lastCall,        \* the public method called last, "none" before the first call
    raised,          \* TRUE iff the last completed call raised an exception
    nSet,            \* number of setPattern calls that returned normally
    nScan,           \* number of analyzeLandscape calls made so far
    calls,           \* number of public method calls made so far
    earlier,         \* results of an earlier BugFinder object of the process, <<>> if none
    frames,          \* findOccurrenceOfNextPatternPart: the active calls, innermost last
    partialChain     \* detectPattern: occurrenceList while it is being built

vars == <<patternFile, landscapeFile, pattern, patternSet, matches, matchParts,
          usedCharacters, pc, cursor, lastCall, raised,
          nSet, nScan, calls, earlier, frames, partialChain>>

env == <<patternFile, landscapeFile>>

\* What the calls leave alone when detectPattern is taken one candidate at a
\* time and the process has a single BugFinder object
aside == <<earlier, frames, partialChain>>

(***************************************************************************)
(* Bounds of the model.  A file is its text, a sequence of characters; its *)
(* size is the number of its characters, line terminators included.        *)
(***************************************************************************)
MaxBytes == 8          \* program run: size of the pattern file plus the landscape file
MaxSessionBytes == 4   \* free session: size of the pattern file plus the landscape file
MaxCalls == 4          \* free session: public method calls
MaxSmallBytes == 6     \* repeated run: size of the pattern file plus the landscape file
MaxStepBytes == 6      \* stepwise run: size of the pattern file plus the landscape file
MaxPlainPattern == 5   \* run on plain files: size of the pattern file
MaxPlainLandscape == 9 \* run on plain files: size of the landscape file

(***************************************************************************)
(* Characters and text.                                                    *)
(***************************************************************************)
SP == " "
NL == "\n"
PatternAlphabet == {"a", SP}
LandscapeAlphabet == {"a", "b"}
PlainAlphabet == {"a"}

\* The texts of n characters over alphabet S and the line terminator
Texts(S, n) == [1..n -> S \cup {NL}]

\* Pattern files end with a line terminator unless empty (the lines are
\* stripped on the right, so a missing last terminator changes nothing)
PatternTexts(n) == {t \in Texts(PatternAlphabet, n) : n = 0 \/ t[n] = NL}

LandscapeTexts(n) == Texts(LandscapeAlphabet, n)

\* Index of the first line terminator of t at or after i; Len(t) if none
RECURSIVE endOfLine(_, _)
endOfLine(t, i) ==
    IF i >= Len(t) \/ t[i] = NL THEN i ELSE endOfLine(t, i + 1)

\* The lines the file iterator yields: each with its terminator, except a
\* last line that has none
RECURSIVE lines(_)
lines(t) ==
    IF t = <<>> THEN <<>>
    ELSE LET k == endOfLine(t, 1)
         IN <<SubSeq(t, 1, k)>> \o lines(SubSeq(t, k + 1, Len(t)))

(***************************************************************************)
(* Occurrence                                                              *)
(***************************************************************************)
Occurrence(line, column, parent) ==
    [line |-> line, column |-> column, parent |-> parent]

\* Variant: the columns are not compared
followsLineOnly(self, otherOccurrence) ==
    self.line = otherOccurrence.line + 1

\* self follows otherOccurrence: same column on the next line
follows(self, otherOccurrence) ==
    /\ self.line = otherOccurrence.line + 1
    /\ self.column = otherOccurrence.column

(***************************************************************************)
(* PatternPart                                                             *)
(***************************************************************************)
\* Indices (0-based) of the characters of the pattern that are not spaces
measureFootprint(p) ==
    SelectSeq([i \in 1..Len(p) |-> i - 1], LAMBDA index : p[index + 1] # SP)

\* The compiled expression, one token per pattern character: an escaped
\* space became ".", every other character stands for itself.
regex(p) ==
    [i \in 1..Len(p) |-> IF p[i] = SP THEN [any |-> TRUE, char |-> SP]
                                      ELSE [any |-> FALSE, char |-> p[i]]]

\* A token accepts a character: "." accepts anything but a line terminator
TokenAccepts(token, c) ==
    IF token.any THEN c # NL ELSE c = token.char

\* The lookahead succeeds at 0-based position start of line
LookaheadAt(re, line, start) ==
    \A k \in 1..Len(re) :
        /\ start + k <= Len(line)
        /\ TokenAccepts(re[k], line[start + k])

\* Variant: finditer on the expression without the lookahead, whose matches
\* consume their characters, so that the scan resumes after each match
RECURSIVE scanConsuming(_, _, _)
scanConsuming(re, line, start) ==
    IF start > Len(line) THEN <<>>
    ELSE IF LookaheadAt(re, line, start)
         THEN <<start>> \o scanConsuming(re, line,
                                start + (IF Len(re) = 0 THEN 1 ELSE Len(re)))
         ELSE scanConsuming(re, line, start + 1)

finditerConsuming(re, line) == scanConsuming(re, line, 0)

\* Variant: the position after the last character is not tried
finditerInsideOnly(re, line) ==
    SelectSeq([i \in 1..Len(line) |-> i - 1],
              LAMBDA start : LookaheadAt(re, line, start))

\* finditer on the zero-width lookahead form: every position 0..len(line)
\* is tried, in increasing order, and each success is one match
finditer(re, line) ==
    SelectSeq([i \in 1..Len(line) + 1 |-> i - 1],
              LAMBDA start : LookaheadAt(re, line, start))

PatternPart(p) ==
    [pattern |-> p, patternFootprint |-> measureFootprint(p), occurrences |-> <<>>]

\* part is pattern[parent]; the result is part after findOccurrences(lineNumber, line)
findOccurrences(part, parent, lineNumber, line) ==
    LET starts == finditer(regex(part.pattern), line)
    IN [part EXCEPT !.occurrences =
            @ \o [i \in 1..Len(starts) |-> Occurrence(lineNumber, starts[i] + 1, parent)]]

(***************************************************************************)
(* UsedCharacters                                                          *)
(***************************************************************************)
addPosition(list, line, column) == list \cup {<<line, column>>}

\* Variant: the column is not looked up
isLineUsed(list, line, column) == \E position \in list : position[1] = line

isPositionUsed(list, line, column) == <<line, column>> \in list

\* Variant: the column is taken as 0-based
markUsedZeroBased(list, pat, occurrence) ==
    LET fp == pat[occurrence.parent].patternFootprint
    IN list \cup {<<occurrence.line, occurrence.column - 1 + fp[i]>> : i \in 1..Len(fp)}

\* Variant: only the first character of the footprint is marked
markUsedFirstOnly(list, pat, occurrence) ==
    LET fp == pat[occurrence.parent].patternFootprint
    IN IF fp = <<>> THEN list
       ELSE list \cup {<<occurrence.line, occurrence.column + fp[1]>>}

\* Variant: every column the fragment spans is marked, spaces included
markUsedWholeSpan(list, pat, occurrence) ==
    list \cup {<<occurrence.line, occurrence.column + (k - 1)>> :
                  k \in 1..Len(pat[occurrence.parent].pattern)}

\* pat is BugFinder.pattern, through which occurrence.parent is reached
markUsed(list, pat, occurrence) ==
    LET fp == pat[occurrence.parent].patternFootprint
    IN list \cup UNION {addPosition({}, occurrence.line, occurrence.column + fp[i]) :
                            i \in 1..Len(fp)}

\* Variant: only the last character of the footprint is looked up
alreadyUsedLastOnly(list, pat, occurrence) ==
    LET fp == pat[occurrence.parent].patternFootprint
    IN /\ fp # <<>>
       /\ isPositionUsed(list, occurrence.line, occurrence.column + fp[Len(fp)])

alreadyUsed(list, pat, occurrence) ==
    LET fp == pat[occurrence.parent].patternFootprint
    IN \E i \in 1..Len(fp) :
           isPositionUsed(list, occurrence.line, occurrence.column + fp[i])

(***************************************************************************)
(* BugFinder                                                               *)
(***************************************************************************)
Whitespace == {SP, NL}

\* Variant: only the line terminator is removed
rstripTerminator(s) ==
    IF s # <<>> /\ s[Len(s)] = NL THEN SubSeq(s, 1, Len(s) - 1) ELSE s

RECURSIVE rstrip(_)
rstrip(s) ==
    IF s # <<>> /\ s[Len(s)] \in Whitespace
    THEN rstrip(SubSeq(s, 1, Len(s) - 1))
    ELSE s

\* Variant: the patternSet flag is not consulted
checkPatternRaisesLengthOnly(pat, isSet) == Len(pat) = 0

\* Variant: the length of the pattern is not consulted
checkPatternRaisesFlagOnly(pat, isSet) == ~isSet

\* checkPattern raises
checkPatternRaises(pat, isSet) == ~isSet \/ Len(pat) = 0

\* BugFinder.pattern after the loop of setPattern consumed the first n lines
readPattern(pat, file, n) ==
    pat \o [i \in 1..n |-> PatternPart(rstrip(lines(file)[i]))]

\* BugFinder.pattern after the loop of analyzeLandscape processed lines
\* from..to of the file
RECURSIVE readLandscape(_, _, _, _)
readLandscape(pat, file, from, to) ==
    IF from > to THEN pat
    ELSE readLandscape(
            [p \in 1..Len(pat) |-> findOccurrences(pat[p], p, from, lines(file)[from])],
            file, from + 1, to)

\* BugFinder.pattern when the loop of analyzeLandscape is interrupted inside
\* a line: the parts before part k + 1 (from 0) have searched the line, part
\* k + 1 has appended the first j of its occurrences on it, the later parts
\* have not seen it
interruptedLine(pat, lineNumber, line, k, j) ==
    [p \in 1..Len(pat) |->
        IF p <= k THEN findOccurrences(pat[p], p, lineNumber, line)
        ELSE IF p = k + 1
        THEN LET found == findOccurrences(pat[p], p, lineNumber, line).occurrences
             IN [pat[p] EXCEPT !.occurrences =
                    SubSeq(found, 1, Len(pat[p].occurrences) + j)]
        ELSE pat[p]]

\* Variant: the search of a part's occurrences gives up at the first one
\* that is not used, whether it follows last or not
firstFollowerHeadOnly(occs, i, list, pat, last) ==
    LET free == SelectSeq([k \in 1..Len(occs) |-> k],
                          LAMBDA k : k >= i /\ ~alreadyUsed(list, pat, occs[k]))
    IN IF free # <<>> /\ follows(occs[free[1]], last) THEN free[1] ELSE 0

\* The first occurrence of the list, at or after index i, that is not used
\* and follows last; 0 if there is none
RECURSIVE firstFollower(_, _, _, _, _)
firstFollower(occs, i, list, pat, last) ==
    IF i > Len(occs) THEN 0
    ELSE IF ~alreadyUsed(list, pat, occs[i]) /\ follows(occs[i], last) THEN i
    ELSE firstFollower(occs, i + 1, list, pat, last)

\* findOccurrenceOfNextPatternPart(occurrenceList), its loop over the pattern
\* parts being at part p (1-based): the occurrence list when the loop is done
RECURSIVE findOccurrenceOfNextPatternPartFrom(_, _, _, _)
findOccurrenceOfNextPatternPartFrom(occurrenceList, p, pat, list) ==
    IF p > Len(pat) THEN occurrenceList
    ELSE IF p - 1 < Len(occurrenceList)
    THEN findOccurrenceOfNextPatternPartFrom(occurrenceList, p + 1, pat, list)
    ELSE LET i == firstFollower(pat[p].occurrences, 1, list, pat,
                                occurrenceList[Len(occurrenceList)])
         IN IF i = 0
            THEN findOccurrenceOfNextPatternPartFrom(occurrenceList, p + 1, pat, list)
            ELSE findOccurrenceOfNextPatternPartFrom(
                    findOccurrenceOfNextPatternPartFrom(
                        Append(occurrenceList, pat[p].occurrences[i]), 1, pat, list),
                    p + 1, pat, list)

findOccurrenceOfNextPatternPart(occurrenceList, pat, list) ==
    findOccurrenceOfNextPatternPartFrom(occurrenceList, 1, pat, list)

\* The occurrences detectPattern's outer loop runs over: those of the first
\* pattern part (the loop over the parts is left after its first pass)
firstPartOccurrences(pat) ==
    IF pat = <<>> THEN <<>> ELSE pat[1].occurrences

RECURSIVE markAll(_, _, _)
markAll(list, pat, occurrenceList) ==
    IF occurrenceList = <<>> THEN list
    ELSE markAll(markUsed(list, pat, Head(occurrenceList)), pat, Tail(occurrenceList))

(***************************************************************************)
(* The session: public calls of one BugFinder object.                      *)
(***************************************************************************)
\* The state of a BugFinder object after __init__
Constructed ==
    /\ pattern = <<>>
    /\ patternSet = FALSE
    /\ matches = 0
    /\ matchParts = <<>>
    /\ usedCharacters = {}
    /\ pc = "idle"
    /\ cursor = 0
    /\ lastCall = "none"
    /\ raised = FALSE
    /\ nSet = 0
    /\ nScan = 0
    /\ calls = 0
    /\ earlier = <<>>
    /\ frames = <<>>
    /\ partialChain = <<>>

\* The two files, of at most n characters together
Files(n) ==
    \E i \in 0..n :
        /\ patternFile \in PatternTexts(i)
        /\ landscapeFile \in UNION {LandscapeTexts(j) : j \in 0..(n - i)}

Init ==
    /\ Files(MaxSessionBytes)
    /\ Constructed

CanCall == pc = "idle" /\ calls < MaxCalls

\* The numbers of lines fully processed when the try block of setPattern or
\* analyzeLandscape is left by an exception, on a file of n lines: none (the
\* file cannot be opened, or its first read fails), some of them, or all of
\* them (the read that would find the end of the file fails, or an
\* interrupt arrives after the last line; the bare except catches both)
FailPoints(n) == 0..n

\* setPattern returns normally
SetPattern ==
    /\ CanCall
    /\ pattern' = readPattern(pattern, patternFile, Len(lines(patternFile)))
    /\ patternSet' = TRUE
    /\ lastCall' = "setPattern"
    /\ raised' = FALSE
    /\ nSet' = nSet + 1
    /\ calls' = calls + 1
    /\ UNCHANGED <<env, aside, matches, matchParts, usedCharacters, pc, cursor, nScan>>

\* setPattern raises "Cannot read the pattern file."
SetPatternFails ==
    /\ CanCall
    /\ \E n \in FailPoints(Len(lines(patternFile))) :
           pattern' = readPattern(pattern, patternFile, n)
    /\ lastCall' = "setPattern"
    /\ raised' = TRUE
    /\ calls' = calls + 1
    /\ UNCHANGED <<env, aside, patternSet, matches, matchParts, usedCharacters, pc, cursor,
                   nSet, nScan>>

\* analyzeLandscape raises in checkPattern
AnalyzeLandscapeRejected ==
    /\ CanCall
    /\ checkPatternRaises(pattern, patternSet)
    /\ lastCall' = "analyzeLandscape"
    /\ raised' = TRUE
    /\ nScan' = nScan + 1
    /\ calls' = calls + 1
    /\ UNCHANGED <<env, aside, pattern, patternSet, matches, matchParts, usedCharacters,
                   pc, cursor, nSet>>

\* analyzeLandscape returns normally
AnalyzeLandscape ==
    /\ CanCall
    /\ ~checkPatternRaises(pattern, patternSet)
    /\ pattern' = readLandscape(pattern, landscapeFile, 1, Len(lines(landscapeFile)))
    /\ lastCall' = "analyzeLandscape"
    /\ raised' = FALSE
    /\ nScan' = nScan + 1
    /\ calls' = calls + 1
    /\ UNCHANGED <<env, aside, patternSet, matches, matchParts, usedCharacters, pc, cursor,
                   nSet>>

\* analyzeLandscape raises "Cannot read the landscape file.": the read
\* failed between two lines, or the loop was interrupted inside a line
AnalyzeLandscapeFails ==
    /\ CanCall
    /\ ~checkPatternRaises(pattern, patternSet)
    /\ \E n \in FailPoints(Len(lines(landscapeFile))) :
           LET read == readLandscape(pattern, landscapeFile, 1, n)
           IN \/ pattern' = read
              \* an interrupt, which the bare except catches as well, while
              \* line n + 1 is searched
              \/ /\ n < Len(lines(landscapeFile))
                 /\ \E k \in 0..(Len(pattern) - 1) :
                        LET line == lines(landscapeFile)[n + 1]
                            count == Len(finditer(regex(pattern[k + 1].pattern), line))
                        IN \E j \in 0..count :
                               pattern' = interruptedLine(read, n + 1, line, k, j)
    /\ lastCall' = "analyzeLandscape"
    /\ raised' = TRUE
    /\ nScan' = nScan + 1
    /\ calls' = calls + 1
    /\ UNCHANGED <<env, aside, patternSet, matches, matchParts, usedCharacters, pc, cursor,
                   nSet>>

\* detectPattern raises in checkPattern
DetectPatternRejected ==
    /\ CanCall
    /\ checkPatternRaises(pattern, patternSet)
    /\ lastCall' = "detectPattern"
    /\ raised' = TRUE
    /\ calls' = calls + 1
    /\ UNCHANGED <<env, aside, pattern, patternSet, matches, matchParts, usedCharacters,
                   pc, cursor, nSet, nScan>>

\* detectPattern gets past checkPattern and enters the loop over the
\* occurrences of the first pattern part
DetectPattern ==
    /\ CanCall
    /\ ~checkPatternRaises(pattern, patternSet)
    /\ pc' = IF firstPartOccurrences(pattern) = <<>> THEN "idle" ELSE "detect"
    /\ cursor' = IF firstPartOccurrences(pattern) = <<>> THEN 0 ELSE 1
    /\ lastCall' = "detectPattern"
    /\ raised' = FALSE
    /\ calls' = calls + 1
    /\ UNCHANGED <<env, aside, pattern, patternSet, matches, matchParts, usedCharacters,
                   nSet, nScan>>

\* The chain detectPattern builds from the first-part occurrence at cursor
Chain ==
    findOccurrenceOfNextPatternPart(<<firstPartOccurrences(pattern)[cursor]>>,
                                    pattern, usedCharacters)

\* Variant: the counter is incremented for every candidate that is not used,
\* whether its chain is complete or not
DetectStepCountsAttempts ==
    /\ pc = "detect"
    /\ LET occurrence == firstPartOccurrences(pattern)[cursor]
           occurrenceList == Chain
       IN IF ~alreadyUsed(usedCharacters, pattern, occurrence)
          THEN /\ matches' = matches + 1
               /\ IF Len(occurrenceList) = Len(pattern)
                  THEN /\ usedCharacters' = markAll(usedCharacters, pattern, occurrenceList)
                       /\ matchParts' = Append(matchParts, occurrenceList)
                  ELSE UNCHANGED <<usedCharacters, matchParts>>
          ELSE UNCHANGED <<matches, usedCharacters, matchParts>>
    /\ IF cursor = Len(firstPartOccurrences(pattern))
       THEN pc' = "idle" /\ cursor' = 0
       ELSE pc' = "detect" /\ cursor' = cursor + 1
    /\ UNCHANGED <<env, aside, pattern, patternSet, lastCall, raised, nSet, nScan, calls>>

\* One iteration of detectPattern's loop; the call returns after the last one
DetectStep ==
    /\ pc = "detect"
    /\ LET occurrence == firstPartOccurrences(pattern)[cursor]
           occurrenceList == Chain
       IN IF ~alreadyUsed(usedCharacters, pattern, occurrence)
             /\ Len(occurrenceList) = Len(pattern)
          THEN /\ matches' = matches + 1
               /\ usedCharacters' = markAll(usedCharacters, pattern, occurrenceList)
               /\ matchParts' = Append(matchParts, occurrenceList)
          ELSE UNCHANGED <<matches, usedCharacters, matchParts>>
    /\ IF cursor = Len(firstPartOccurrences(pattern))
       THEN pc' = "idle" /\ cursor' = 0
       ELSE pc' = "detect" /\ cursor' = cursor + 1
    /\ UNCHANGED <<env, aside, pattern, patternSet, lastCall, raised, nSet, nScan, calls>>

Next ==
    \/ SetPattern
    \/ SetPatternFails
    \/ AnalyzeLandscapeRejected
    \/ AnalyzeLandscape
    \/ AnalyzeLandscapeFails
    \/ DetectPatternRejected
    \/ DetectPattern
    \/ DetectStep

Spec == Init /\ [][Next]_vars

(***************************************************************************)
(* The program: main() makes the three calls in order on one object, and   *)
(* an exception of any of them ends the run.                               *)
(***************************************************************************)
InitMain ==
    /\ Files(MaxBytes)
    /\ Constructed

MainSetPattern ==
    /\ lastCall = "none"
    /\ (SetPattern \/ SetPatternFails)

MainAnalyzeLandscape ==
    /\ lastCall = "setPattern" /\ ~raised
    /\ (AnalyzeLandscape \/ AnalyzeLandscapeRejected \/ AnalyzeLandscapeFails)

MainDetectPattern ==
    /\ lastCall = "analyzeLandscape" /\ ~raised
    /\ DetectPattern

NextMain ==
    \/ MainSetPattern
    \/ MainAnalyzeLandscape
    \/ MainDetectPattern
    \/ DetectStep

SpecMain == InitMain /\ [][NextMain]_vars

(***************************************************************************)
(* The program run on plain files: larger files over a single letter, the  *)
(* pattern file without blank lines.                                       *)
(***************************************************************************)
PlainPatternTexts(n) ==
    {t \in Texts(PlainAlphabet, n) :
        n = 0 \/ (/\ t[n] = NL
                  /\ t[1] # NL
                  /\ \A i \in 1..(n - 1) : ~(t[i] = NL /\ t[i + 1] = NL))}

PlainFiles ==
    /\ patternFile \in UNION {PlainPatternTexts(n) : n \in 0..MaxPlainPattern}
    /\ landscapeFile \in UNION {Texts(PlainAlphabet, n) : n \in 0..MaxPlainLandscape}

InitPlain ==
    /\ PlainFiles
    /\ Constructed

SpecPlain == InitPlain /\ [][NextMain]_vars

(***************************************************************************)
(* Two objects, one after the other: when the run of main is over, the     *)
(* process notes its results, constructs a second BugFinder and makes the  *)
(* three calls again, on files that hold the same lines.                   *)
(***************************************************************************)
\* UsedCharacters(): the list of a new object
UsedCharacters == {}

InitTwice ==
    /\ Files(MaxSmallBytes)
    /\ Constructed

\* The text t with x inserted before position i
insertAt(t, i, x) == SubSeq(t, 1, i - 1) \o <<x>> \o SubSeq(t, i, Len(t))

\* The text t without its character at position i
deleteAt(t, i) == SubSeq(t, 1, i - 1) \o SubSeq(t, i + 1, Len(t))

\* Pattern files written like t or with one blank more or less at the end
\* of a line
PatternFileRewrites(t) ==
    {t} \cup {insertAt(t, i, SP) : i \in {k \in 1..Len(t) : t[k] = NL}}
        \cup {deleteAt(t, i) : i \in {k \in 1..(Len(t) - 1) : t[k] = SP /\ t[k + 1] = NL}}

\* Landscape files written like t or with the terminator of the last line
\* added or left out
LandscapeFileRewrites(t) ==
    {t} \cup (IF t # <<>> /\ t[Len(t)] # NL THEN {Append(t, NL)} ELSE {})
        \cup (IF Len(t) >= 2 /\ t[Len(t)] = NL /\ t[Len(t) - 1] # NL
              THEN {SubSeq(t, 1, Len(t) - 1)} ELSE {})

\* main() once more: BugFinder() constructs a new object, the results of the
\* first one being kept aside; bug.txt and landscape.txt hold the same lines
\* as before, possibly written anew
NewBugFinder ==
    /\ pc = "idle"
    /\ lastCall = "detectPattern" /\ ~raised
    /\ earlier = <<>>
    /\ earlier' = <<[matches |-> matches, matchParts |-> matchParts,
                     patternFile |-> patternFile, landscapeFile |-> landscapeFile]>>
    /\ patternFile' \in PatternFileRewrites(patternFile)
    /\ landscapeFile' \in LandscapeFileRewrites(landscapeFile)
    /\ pattern' = <<>>
    /\ patternSet' = FALSE
    /\ matches' = 0
    /\ matchParts' = <<>>
    /\ usedCharacters' = UsedCharacters
    /\ cursor' = 0
    /\ lastCall' = "none"
    /\ raised' = FALSE
    /\ nSet' = 0
    /\ nScan' = 0
    /\ calls' = 0
    /\ UNCHANGED <<pc, frames, partialChain>>

NextTwice ==
    \/ MainSetPattern
    \/ MainAnalyzeLandscape
    \/ MainDetectPattern
    \/ DetectStep
    \/ NewBugFinder

SpecTwice == InitTwice /\ [][NextTwice]_vars

(***************************************************************************)
(* detectPattern statement by statement: the calls of                      *)
(* findOccurrenceOfNextPatternPart are frames [part, index], part being    *)
(* the position of its loop over the pattern parts and index the position  *)
(* of its loop over the occurrences of that part (both from 1).            *)
(***************************************************************************)
Frame(part, index) == [part |-> part, index |-> index]

\* The innermost call
Top == frames[Len(frames)]

\* The frames with the innermost one replaced
WithTop(frame) == [frames EXCEPT ![Len(frames)] = frame]

\* The occurrence the innermost call looks at
Looked == pattern[Top.part].occurrences[Top.index]

\* The loop over the candidates moves on, or is over
NextCandidate ==
    IF cursor = Len(firstPartOccurrences(pattern))
    THEN pc' = "idle" /\ cursor' = 0
    ELSE pc' = "detect" /\ cursor' = cursor + 1

\* detectPattern: the candidate is used already (continue)
SkipCandidate ==
    /\ pc = "detect"
    /\ alreadyUsed(usedCharacters, pattern, firstPartOccurrences(pattern)[cursor])
    /\ NextCandidate
    /\ UNCHANGED <<env, earlier, frames, partialChain, pattern, patternSet, matches,
                   matchParts, usedCharacters, lastCall, raised, nSet, nScan, calls>>

\* detectPattern: occurrenceList = [occurrence], and the first call
StartChain ==
    /\ pc = "detect"
    /\ ~alreadyUsed(usedCharacters, pattern, firstPartOccurrences(pattern)[cursor])
    /\ partialChain' = <<firstPartOccurrences(pattern)[cursor]>>
    /\ frames' = <<Frame(1, 1)>>
    /\ pc' = "find"
    /\ UNCHANGED <<env, earlier, cursor, pattern, patternSet, matches, matchParts,
                   usedCharacters, lastCall, raised, nSet, nScan, calls>>

\* The test at the head of the loop over the parts, made before the first
\* occurrence of a part is looked at: the part is not one of those the chain
\* holds already
PartSelected == Top.index > 1 \/ Top.part - 1 >= Len(partialChain)

\* The part is one of those the chain holds already (continue)
FindSkipPart ==
    /\ pc = "find"
    /\ Top.part <= Len(pattern)
    /\ ~PartSelected
    /\ frames' = WithTop(Frame(Top.part + 1, 1))
    /\ UNCHANGED <<env, earlier, partialChain, pc, cursor, pattern, patternSet, matches,
                   matchParts, usedCharacters, lastCall, raised, nSet, nScan, calls>>

\* The occurrence is used already, or does not follow the last of the chain
FindSkipOccurrence ==
    /\ pc = "find"
    /\ Top.part <= Len(pattern)
    /\ PartSelected
    /\ Top.index <= Len(pattern[Top.part].occurrences)
    /\ \/ alreadyUsed(usedCharacters, pattern, Looked)
       \/ ~follows(Looked, partialChain[Len(partialChain)])
    /\ frames' = WithTop(Frame(Top.part, Top.index + 1))
    /\ UNCHANGED <<env, earlier, partialChain, pc, cursor, pattern, patternSet, matches,
                   matchParts, usedCharacters, lastCall, raised, nSet, nScan, calls>>

\* Variant: the loop over the occurrences is not left after the recursive
\* call
FindExtendNoBreak ==
    /\ pc = "find"
    /\ Top.part <= Len(pattern)
    /\ PartSelected
    /\ Top.index <= Len(pattern[Top.part].occurrences)
    /\ ~alreadyUsed(usedCharacters, pattern, Looked)
    /\ follows(Looked, partialChain[Len(partialChain)])
    /\ partialChain' = Append(partialChain, Looked)
    /\ frames' = Append(WithTop(Frame(Top.part, Top.index + 1)), Frame(1, 1))
    /\ UNCHANGED <<env, earlier, pc, cursor, pattern, patternSet, matches,
                   matchParts, usedCharacters, lastCall, raised, nSet, nScan, calls>>

\* The occurrence follows the last of the chain: it is appended and the
\* function calls itself; the caller will leave its loop over the
\* occurrences (break) and go on with the next part
FindExtend ==
    /\ pc = "find"
    /\ Top.part <= Len(pattern)
    /\ PartSelected
    /\ Top.index <= Len(pattern[Top.part].occurrences)
    /\ ~alreadyUsed(usedCharacters, pattern, Looked)
    /\ follows(Looked, partialChain[Len(partialChain)])
    /\ partialChain' = Append(partialChain, Looked)
    /\ frames' = Append(WithTop(Frame(Top.part + 1, 1)), Frame(1, 1))
    /\ UNCHANGED <<env, earlier, pc, cursor, pattern, patternSet, matches,
                   matchParts, usedCharacters, lastCall, raised, nSet, nScan, calls>>

\* The occurrences of the part are exhausted: on to the next part
FindNextPart ==
    /\ pc = "find"
    /\ Top.part <= Len(pattern)
    /\ PartSelected
    /\ Top.index > Len(pattern[Top.part].occurrences)
    /\ frames' = WithTop(Frame(Top.part + 1, 1))
    /\ UNCHANGED <<env, earlier, partialChain, pc, cursor, pattern, patternSet, matches,
                   matchParts, usedCharacters, lastCall, raised, nSet, nScan, calls>>

\* The parts are exhausted: the call returns, the first one to detectPattern
FindReturn ==
    /\ pc = "find"
    /\ Top.part > Len(pattern)
    /\ frames' = SubSeq(frames, 1, Len(frames) - 1)
    /\ pc' = IF Len(frames) = 1 THEN "record" ELSE "find"
    /\ UNCHANGED <<env, earlier, partialChain, cursor, pattern, patternSet, matches,
                   matchParts, usedCharacters, lastCall, raised, nSet, nScan, calls>>

\* detectPattern: the chain is a match if it is as long as the pattern
Record ==
    /\ pc = "record"
    /\ IF Len(partialChain) = Len(pattern)
       THEN /\ matches' = matches + 1
            /\ usedCharacters' = markAll(usedCharacters, pattern, partialChain)
            /\ matchParts' = Append(matchParts, partialChain)
       ELSE UNCHANGED <<matches, usedCharacters, matchParts>>
    /\ partialChain' = <<>>
    /\ NextCandidate
    /\ UNCHANGED <<env, earlier, frames, pattern, patternSet, lastCall, raised,
                   nSet, nScan, calls>>

\* The statements of a detectPattern call that is under way
Statement ==
    \/ SkipCandidate
    \/ StartChain
    \/ FindSkipPart
    \/ FindSkipOccurrence
    \/ FindExtend
    \/ FindNextPart
    \/ FindReturn
    \/ Record

InitSteps ==
    /\ Files(MaxStepBytes)
    /\ Constructed

NextSteps ==
    \/ MainSetPattern
    \/ MainAnalyzeLandscape
    \/ MainDetectPattern
    \/ SkipCandidate
    \/ StartChain
    \/ FindSkipPart
    \/ FindSkipOccurrence
    \/ FindExtend
    \/ FindNextPart
    \/ FindReturn
    \/ Record

\* A call that was made runs on: no statement waits forever
SpecSteps == InitSteps /\ [][NextSteps]_vars /\ WF_vars(Statement)

(***************************************************************************)
(* Notions of the specification, stated independently of the algorithm.    *)
(***************************************************************************)
\* A line without its terminator
body(line) ==
    IF line # <<>> /\ line[Len(line)] = NL THEN SubSeq(line, 1, Len(line) - 1) ELSE line

\* The landscape positions an occurrence reserves: one per non-space
\* character of its fragment
FootprintPositions(o) ==
    {<<o.line, o.column + (k - 1)>> :
        k \in {j \in 1..Len(pattern[o.parent].pattern) : pattern[o.parent].pattern[j] # SP}}

MatchPositions(m) == UNION {FootprintPositions(m[i]) : i \in 1..Len(m)}

\* The detectPattern call made last has returned normally
DetectDone == lastCall = "detectPattern" /\ ~raised /\ pc = "idle"

\* The analyzeLandscape call made last has returned normally
ScanDone == lastCall = "analyzeLandscape" /\ ~raised

(***************************************************************************)
(* C1: no landscape position (line, column) is a footprint position of two *)
(* different recorded matches, after any sequence of calls of a session.   *)
(***************************************************************************)
C1_CharacterExclusivity ==
    \A i, j \in 1..Len(matchParts) :
        i # j => MatchPositions(matchParts[i]) \cap MatchPositions(matchParts[j]) = {}

\* Two matches that reserve characters were recorded, and a further
\* occurrence of the first fragment was refused
C1_Witness ==
    /\ DetectDone
    /\ Len(matchParts) >= 2
    /\ \A i \in 1..Len(matchParts) : MatchPositions(matchParts[i]) # {}
    /\ Len(firstPartOccurrences(pattern)) > Len(matchParts)

(***************************************************************************)
(* C2: every recorded match holds exactly one occurrence per fragment, in  *)
(* fragment order: its i-th occurrence is an occurrence of the i-th        *)
(* fragment.                                                               *)
(***************************************************************************)
C2_OneOccurrencePerFragment ==
    \A n \in 1..Len(matchParts) :
        /\ Len(matchParts[n]) = Len(pattern)
        /\ \A i \in 1..Len(matchParts[n]) : matchParts[n][i].parent = i

(***************************************************************************)
(* C3: every recorded match has as many occurrences as the pattern has     *)
(* fragments, and each of them is at the column of, and on the line after, *)
(* the one before it.                                                      *)
(***************************************************************************)
C3_LengthAndFollows ==
    \A n \in 1..Len(matchParts) :
        LET m == matchParts[n]
        IN /\ Len(m) = Len(pattern)
           /\ \A i \in 2..Len(m) :
                  /\ m[i].column = m[i - 1].column
                  /\ m[i].line = m[i - 1].line + 1

\* A match over two or more lines, whose fragments reserve characters, was
\* recorded while another line of the landscape holds the second fragment
\* at another column
C3_Witness ==
    /\ DetectDone
    /\ \E n \in 1..Len(matchParts) :
          /\ Len(matchParts[n]) >= 2
          /\ \A i \in 1..Len(matchParts[n]) : FootprintPositions(matchParts[n][i]) # {}
          /\ \E i \in 1..Len(pattern[2].occurrences) :
                 pattern[2].occurrences[i].column # matchParts[n][1].column

(***************************************************************************)
(* C4: a non-empty fragment f has an occurrence at column c of a landscape *)
(* line exactly when f fits inside the line from c on and each non-space   *)
(* character of f equals the character of the line at its offset; every    *)
(* such column is recorded, overlapping ones too, in increasing order.     *)
(***************************************************************************)
\* Fragment f lies at column c of text t, spaces standing for any character
OccursAt(f, t, c) ==
    /\ c >= 1
    /\ c + Len(f) - 1 <= Len(t)
    /\ \A k \in 1..Len(f) : f[k] # SP => t[c + k - 1] = f[k]

LandscapeLines == lines(landscapeFile)

\* Occurrence a is recorded before occurrence b in reading order
Before(a, b) ==
    \/ a.line < b.line
    \/ a.line = b.line /\ a.column < b.column

C4_OccurrencesAreTheFits ==
    ScanDone =>
        \A p \in 1..Len(pattern) :
            LET f == pattern[p].pattern
                occs == pattern[p].occurrences
            IN f # <<>> =>
                /\ \A i \in 1..Len(occs) :
                       /\ occs[i].parent = p
                       /\ occs[i].line \in 1..Len(LandscapeLines)
                       /\ OccursAt(f, body(LandscapeLines[occs[i].line]), occs[i].column)
                /\ \A l \in 1..Len(LandscapeLines) :
                       \A c \in 1..(Len(LandscapeLines[l]) + 1) :
                           OccursAt(f, body(LandscapeLines[l]), c) =>
                               \E i \in 1..Len(occs) :
                                   occs[i].line = l /\ occs[i].column = c
                /\ \A i, j \in 1..Len(occs) : i < j => Before(occs[i], occs[j])

\* A fragment with a space in it was found at two columns of one line whose
\* spans overlap
C4_Witness ==
    /\ ScanDone
    /\ \E p \in 1..Len(pattern) :
          LET f == pattern[p].pattern
              occs == pattern[p].occurrences
          IN /\ \E k \in 1..Len(f) : f[k] = SP
             /\ \E i \in 1..(Len(occs) - 1) :
                    /\ occs[i].line = occs[i + 1].line
                    /\ occs[i + 1].column - occs[i].column < Len(f)

(***************************************************************************)
(* C5: for a pattern of a single fragment without spaces, the match count  *)
(* after load, scan and detect.                                            *)
(***************************************************************************)
NoSpaces(f) == \A k \in 1..Len(f) : f[k] # SP

\* Number of columns of text t at which f lies, overlaps included
OverlappingCount(f, t) == Cardinality({c \in 1..(Len(t) + 1) : OccursAt(f, t, c)})

\* Number of occurrences of f in t that a left-to-right scan accepts when it
\* resumes after the end of each accepted occurrence
RECURSIVE DisjointCount(_, _, _)
DisjointCount(f, t, c) ==
    IF c > Len(t) + 1 THEN 0
    ELSE IF OccursAt(f, t, c)
         THEN 1 + DisjointCount(f, t, c + (IF f = <<>> THEN 1 ELSE Len(f)))
         ELSE DisjointCount(f, t, c + 1)

RECURSIVE SumOverLines(_, _, _)
SumOverLines(Count(_, _), f, ls) ==
    IF ls = <<>> THEN 0 ELSE Count(f, Head(ls)) + SumOverLines(Count, f, Tail(ls))

DisjointFromStart(f, t) == DisjointCount(f, t, 1)

\* C5 as claimed: the match count is the number of overlapping literal
\* occurrences of the fragment in the landscape
C5_CountIsOverlappingCount ==
    (DetectDone /\ Len(pattern) = 1 /\ NoSpaces(pattern[1].pattern)) =>
        matches = SumOverLines(OverlappingCount, pattern[1].pattern, LandscapeLines)

\* C5 as amended: the match count is the number of literal occurrences that a
\* left-to-right scan of each line accepts when it skips every occurrence
\* overlapping the one accepted before it
C5_CountIsDisjointCount ==
    (DetectDone /\ Len(pattern) = 1 /\ NoSpaces(pattern[1].pattern)) =>
        /\ matches = SumOverLines(DisjointFromStart, pattern[1].pattern, LandscapeLines)
        /\ Len(matchParts) = matches

\* Detection is over for a single literal fragment with overlapping
\* occurrences, some of which became matches and some of which did not
C5_Witness ==
    /\ DetectDone
    /\ Len(pattern) = 1
    /\ pattern[1].pattern # <<>>
    /\ NoSpaces(pattern[1].pattern)
    /\ matches >= 2
    /\ matches < SumOverLines(OverlappingCount, pattern[1].pattern, LandscapeLines)

(***************************************************************************)
(* C6: for a pattern of two or more fragments, when no occurrence of a     *)
(* fragment follows an occurrence of the fragment before it, detection     *)
(* records no match and the match count is 0.                              *)
(***************************************************************************)
NothingFollows ==
    \A p \in 1..(Len(pattern) - 1) :
        \A i \in 1..Len(pattern[p].occurrences) :
            \A j \in 1..Len(pattern[p + 1].occurrences) :
                ~follows(pattern[p + 1].occurrences[j], pattern[p].occurrences[i])

C6_NoAlignmentNoMatch ==
    (DetectDone /\ Len(pattern) >= 2 /\ NothingFollows) =>
        matches = 0 /\ matchParts = <<>>

(***************************************************************************)
(* C7: a detectPattern call made after a successful setPattern and before  *)
(* any analyzeLandscape raises an error. (checkPattern tests the flag and  *)
(* the length of the pattern only, so the call raises only when no         *)
(* fragment was loaded; otherwise it returns with no match.)               *)
(***************************************************************************)
DetectBeforeAnyScan == lastCall = "detectPattern" /\ nSet >= 1 /\ nScan = 0

C7_DetectBeforeScanRaises == DetectBeforeAnyScan => raised

(***************************************************************************)
(* C8: while no setPattern call has succeeded, every analyzeLandscape or   *)
(* detectPattern call raises, records no occurrence and leaves the match   *)
(* count, the match list and the used characters as they were.             *)
(***************************************************************************)
C8_NothingWithoutPattern ==
    [][(/\ nSet = 0
        /\ calls' = calls + 1
        /\ lastCall' \in {"analyzeLandscape", "detectPattern"})
       => (/\ raised'
           /\ pc' = "idle"
           /\ pattern' = pattern
           /\ matches' = matches
           /\ matchParts' = matchParts
           /\ usedCharacters' = usedCharacters)]_vars

\* A scan was refused although fragments are present, left by a setPattern
\* call that failed while reading
C8_Witness ==
    /\ nSet = 0
    /\ pattern # <<>>
    /\ lastCall = "analyzeLandscape"
    /\ raised

(***************************************************************************)
(* C9: setPattern on a pattern file without lines.                         *)
(***************************************************************************)
EmptyPatternFile == lines(patternFile) = <<>>

\* C9 as claimed: the call raises and does not mark the pattern as set
C9_EmptyPatternRefusedAtLoad ==
    (EmptyPatternFile /\ lastCall = "setPattern") => (raised /\ ~patternSet)

\* C9 as amended: the call returns normally, unless the read itself fails,
\* and marks the pattern as set; the empty fragment list is refused by every
\* later analyzeLandscape and detectPattern call
C9_EmptyPatternRefusedAtUse ==
    EmptyPatternFile =>
        /\ pattern = <<>>
        /\ patternSet <=> nSet >= 1
        /\ (lastCall = "setPattern" /\ ~raised) => patternSet
        /\ lastCall \in {"analyzeLandscape", "detectPattern"} => raised
        /\ matches = 0 /\ matchParts = <<>>

\* The empty file was loaded, the pattern is marked as set, and a later call
\* was refused
C9_Witness ==
    /\ EmptyPatternFile
    /\ patternSet
    /\ lastCall \in {"analyzeLandscape", "detectPattern"}
    /\ raised

(***************************************************************************)
(* C10: the occurrences of an empty fragment, and of a fragment on a       *)
(* landscape line shorter than it.                                         *)
(***************************************************************************)
OccurrencesOnLine(p, l) ==
    SelectSeq(pattern[p].occurrences, LAMBDA o : o.line = l)

ShortLinesAreEmpty(p) ==
    \A l \in 1..Len(LandscapeLines) :
        Len(body(LandscapeLines[l])) < Len(pattern[p].pattern) =>
            OccurrencesOnLine(p, l) = <<>>

\* C10 as claimed: an empty fragment has no occurrence on any line, and a
\* fragment has none on a line shorter than it
C10_EmptyFragmentFindsNothing ==
    ScanDone =>
        \A p \in 1..Len(pattern) :
            /\ pattern[p].pattern = <<>> => pattern[p].occurrences = <<>>
            /\ ShortLinesAreEmpty(p)

\* C10 as amended: an empty fragment has one occurrence at every column of
\* every line, from 1 to one past the length of the line as read (with its
\* terminator); a non-empty fragment has none on a line shorter than it
C10_EmptyFragmentFindsEveryColumn ==
    ScanDone =>
        \A p \in 1..Len(pattern) :
            IF pattern[p].pattern = <<>>
            THEN /\ \A l \in 1..Len(LandscapeLines) :
                        OccurrencesOnLine(p, l) =
                            [c \in 1..(Len(LandscapeLines[l]) + 1) |-> Occurrence(l, c, p)]
                 /\ \A i \in 1..Len(pattern[p].occurrences) :
                        pattern[p].occurrences[i].line \in 1..Len(LandscapeLines)
            ELSE ShortLinesAreEmpty(p)

\* An empty fragment has occurrences, and a non-empty one met a line that is
\* not empty and shorter than it
C10_Witness ==
    /\ ScanDone
    /\ \E p \in 1..Len(pattern) :
          pattern[p].pattern = <<>> /\ pattern[p].occurrences # <<>>
    /\ \E q \in 1..Len(pattern) : \E l \in 1..Len(LandscapeLines) :
          /\ body(LandscapeLines[l]) # <<>>
          /\ Len(body(LandscapeLines[l])) < Len(pattern[q].pattern)

(***************************************************************************)
(* C11: an analyzeLandscape call that raises because the landscape cannot  *)
(* be read, also after some of its lines were processed, leaves the        *)
(* occurrence list of every fragment as it was before the call.            *)
(***************************************************************************)
C11_FailedScanLeavesNoResults ==
    [][(/\ calls' = calls + 1
        /\ lastCall' = "analyzeLandscape"
        /\ raised')
       => pattern' = pattern]_vars

(***************************************************************************)
(* C18: in every reachable state of a session, after any sequence of       *)
(* setPattern, analyzeLandscape and detectPattern calls, failed ones and   *)
(* repeated detections included, the match count equals the number of      *)
(* matches stored in the match list.                                       *)
(***************************************************************************)
C18_CountIsLengthOfMatchList == matches = Len(matchParts)

\* Matches were recorded, more than one of them by an earlier detection
\* whose candidate chains were not all complete, and a later call failed
C18_Witness ==
    /\ matches >= 2
    /\ Len(pattern) >= 2
    /\ raised
    /\ lastCall \in {"setPattern", "analyzeLandscape"}

(***************************************************************************)
(* C19: in every state between two candidate evaluations of detectPattern, *)
(* the used characters are exactly the footprint positions (line, column + *)
(* offset, for each offset of a non-space character) of the occurrences of *)
(* the recorded matches: nothing else is marked, in particular no position *)
(* under a space unless a footprint covers it, and no mark is ever removed.*)
(***************************************************************************)
AllMatchPositions == UNION {MatchPositions(matchParts[n]) : n \in 1..Len(matchParts)}

C19_UsedCharactersAreTheFootprints ==
    /\ usedCharacters = AllMatchPositions
    /\ [][/\ usedCharacters' = AllMatchPositions'
          /\ usedCharacters \subseteq usedCharacters']_vars

\* Detection is between two candidates, having recorded a match of a
\* fragment with a space in it, whose position under the space is not marked
C19_Witness ==
    /\ pc = "detect"
    /\ \E n \in 1..Len(matchParts) : \E i \in 1..Len(matchParts[n]) :
          LET o == matchParts[n][i]
              f == pattern[o.parent].pattern
          IN \E k \in 1..Len(f) :
                 /\ f[k] = SP
                 /\ <<o.line, o.column + (k - 1)>> \notin usedCharacters
                 /\ FootprintPositions(o) # {}

(***************************************************************************)
(* Candidates of detectPattern and aligned chains.                         *)
(***************************************************************************)
\* The occurrence of the first fragment that detectPattern evaluates next
Candidate == firstPartOccurrences(pattern)[cursor]

\* Some footprint position of the occurrence is marked as used
Blocked(o) == FootprintPositions(o) \cap usedCharacters # {}

\* Fragment p has a recorded occurrence at (line, column) that is not blocked
FreeOccurrenceAt(p, line, column) ==
    \E i \in 1..Len(pattern[p].occurrences) :
        LET o == pattern[p].occurrences[i]
        IN o.line = line /\ o.column = column /\ ~Blocked(o)

\* The chain aligned under occurrence s of the first fragment: fragment p
\* at the column of s, p - 1 lines below it
AlignedChain(s) ==
    [p \in 1..Len(pattern) |-> Occurrence(s.line + (p - 1), s.column, p)]

\* An occurrence of the first fragment under which every fragment has a
\* recorded occurrence, blocked or not
IsChainStart(s) ==
    \A p \in 1..Len(pattern) :
        \E i \in 1..Len(pattern[p].occurrences) :
            /\ pattern[p].occurrences[i].line = s.line + (p - 1)
            /\ pattern[p].occurrences[i].column = s.column

\* Every occurrence of the chain aligned under s is recorded and not blocked
HasFreeAlignedChain(s) ==
    \A p \in 1..Len(pattern) : FreeOccurrenceAt(p, s.line + (p - 1), s.column)

(***************************************************************************)
(* C13: after a single scan, when detectPattern evaluates an occurrence s  *)
(* of the first fragment at (l, c) that is not blocked, and every fragment *)
(* i (from 0) has a recorded occurrence at (l + i, c) that is not blocked  *)
(* at that moment, one match is recorded, made of exactly those            *)
(* occurrences in fragment order.                                          *)
(***************************************************************************)
C13_AlignedChainIsRecorded ==
    [][(pc = "detect" /\ HasFreeAlignedChain(Candidate))
       => /\ matches' = matches + 1
          /\ matchParts' = Append(matchParts, AlignedChain(Candidate))]_vars

\* One match of two or more fragments that reserve characters was recorded,
\* the way ["ab", "ab"] is found once on ["xaby", "xaby"], while another
\* occurrence of the first fragment has no aligned chain under it
C13_Witness ==
    /\ DetectDone
    /\ matches = 1
    /\ Len(pattern) >= 2
    /\ Len(matchParts[1]) = Len(pattern)
    /\ matchParts[1] = AlignedChain(matchParts[1][1])
    /\ \A i \in 1..Len(matchParts[1]) : FootprintPositions(matchParts[1][i]) # {}
    /\ \E k \in 1..Len(pattern[1].occurrences) : ~IsChainStart(pattern[1].occurrences[k])

(***************************************************************************)
(* C14: for a pattern of a single fragment, detectPattern accepts the      *)
(* occurrences greedily in the order of their discovery, line by line and  *)
(* column by column: an occurrence becomes a match if and only if none of  *)
(* its footprint positions was consumed by an occurrence accepted earlier  *)
(* in that order.                                                          *)
(***************************************************************************)
\* The occurrences of the list, from index i on, that a greedy pass accepts
\* when the positions of consumed are taken already
RECURSIVE GreedyAccepted(_, _, _)
GreedyAccepted(occs, i, consumed) ==
    IF i > Len(occs) THEN <<>>
    ELSE IF FootprintPositions(occs[i]) \cap consumed = {}
         THEN <<occs[i]>> \o GreedyAccepted(occs, i + 1,
                                 consumed \cup FootprintPositions(occs[i]))
         ELSE GreedyAccepted(occs, i + 1, consumed)

C14_SingleFragmentGreedy ==
    (DetectDone /\ Len(pattern) = 1) =>
        LET occs == pattern[1].occurrences
            accepted == GreedyAccepted(occs, 1, {})
        IN /\ \A i, j \in 1..Len(occs) : i < j => Before(occs[i], occs[j])
           /\ matches = Len(accepted)
           /\ matchParts = [n \in 1..Len(accepted) |-> <<accepted[n]>>]

\* Detection is over for a single fragment with a space in it: an
\* occurrence was accepted and a later one was refused
C14_Witness ==
    /\ DetectDone
    /\ Len(pattern) = 1
    /\ \E k \in 1..Len(pattern[1].pattern) : pattern[1].pattern[k] = SP
    /\ matches >= 1
    /\ \E i \in 1..Len(pattern[1].occurrences) :
          /\ \A n \in 1..Len(matchParts) : matchParts[n][1] # pattern[1].occurrences[i]
          /\ \E n \in 1..Len(matchParts) :
                 Before(matchParts[n][1], pattern[1].occurrences[i])

(***************************************************************************)
(* C15: a candidate whose chain cannot be extended to one occurrence per   *)
(* fragment is discarded without effect: evaluating it leaves the match    *)
(* count, the match list and the used characters unchanged.                *)
(***************************************************************************)
C15_IncompleteChainIsDiscarded ==
    [][(pc = "detect" /\ ~HasFreeAlignedChain(Candidate))
       => /\ matches' = matches
          /\ matchParts' = matchParts
          /\ usedCharacters' = usedCharacters]_vars

(***************************************************************************)
(* C16: there are a pattern and a landscape for which detectPattern        *)
(* records fewer matches than the largest number of complete aligned       *)
(* chains with pairwise disjoint footprint positions; whenever it does, a  *)
(* recorded match shares positions with two chains that start after it,    *)
(* are disjoint from each other and were not recorded.                     *)
(***************************************************************************)
\* The starts of the complete aligned chains, in the order of discovery
ChainStarts == SelectSeq(firstPartOccurrences(pattern), IsChainStart)

ChainPositions(s) == MatchPositions(AlignedChain(s))

Max(a, b) == IF a >= b THEN a ELSE b

\* The largest number of chains, among those starting at index i or later,
\* that are pairwise disjoint and avoid the positions of taken
RECURSIVE MostDisjointChains(_, _)
MostDisjointChains(i, taken) ==
    IF i > Len(ChainStarts) THEN 0
    ELSE LET positions == ChainPositions(ChainStarts[i])
         IN IF positions = {}
            THEN 1 + MostDisjointChains(i + 1, taken)
            ELSE IF positions \cap taken # {}
            THEN MostDisjointChains(i + 1, taken)
            ELSE Max(1 + MostDisjointChains(i + 1, taken \cup positions),
                     MostDisjointChains(i + 1, taken))

Optimum == MostDisjointChains(1, {})

IsRecorded(chain) == \E n \in 1..Len(matchParts) : matchParts[n] = chain

C16_ShortfallComesFromEarlyCommitment ==
    (DetectDone /\ matches < Optimum) =>
        \E n \in 1..Len(matchParts) : \E x, y \in 1..Len(ChainStarts) :
            LET committed == matchParts[n]
                s == ChainStarts[x]
                t == ChainStarts[y]
            IN /\ x # y
               /\ Before(committed[1], s) /\ Before(committed[1], t)
               /\ ~IsRecorded(AlignedChain(s)) /\ ~IsRecorded(AlignedChain(t))
               /\ ChainPositions(s) \cap ChainPositions(t) = {}
               /\ ChainPositions(s) \cap MatchPositions(committed) # {}
               /\ ChainPositions(t) \cap MatchPositions(committed) # {}

\* Detection is over and recorded fewer matches than the optimum
C16_Witness ==
    /\ DetectDone
    /\ matches >= 1
    /\ matches < Optimum

(***************************************************************************)
(* C12: two new BugFinder objects given the same pattern lines and the     *)
(* same landscape lines, each making the three calls once, end with the    *)
(* same match count and the same sequence of matches, occurrence by        *)
(* occurrence.                                                             *)
(***************************************************************************)
BothDone == DetectDone /\ earlier # <<>>

\* The files f and g hold the same lines, terminators aside
SameLines(f, g) ==
    /\ Len(lines(f)) = Len(lines(g))
    /\ \A i \in 1..Len(lines(f)) : body(lines(f)[i]) = body(lines(g)[i])

\* A line without its terminator and the blanks before it
RECURSIVE stripped(_)
stripped(s) ==
    IF s # <<>> /\ (s[Len(s)] = SP \/ s[Len(s)] = NL)
    THEN stripped(SubSeq(s, 1, Len(s) - 1))
    ELSE s

\* The lines of the files f and g give the same fragments
SameFragments(f, g) ==
    /\ Len(lines(f)) = Len(lines(g))
    /\ \A i \in 1..Len(lines(f)) : stripped(lines(f)[i]) = stripped(lines(g)[i])

SameMatches ==
    /\ matches = earlier[1].matches
    /\ matchParts = earlier[1].matchParts

ChainWithinPattern ==
    /\ Len(partialChain) <= Len(pattern)
    /\ Len(frames) <= Len(partialChain)

CallsOnlyAfterGrowth ==
    Len(frames') > Len(frames) =>
        /\ Len(frames') = Len(frames) + 1
        /\ Len(partialChain') = Len(partialChain) + 1

C17_DetectPatternTerminates ==
    /\ []ChainWithinPattern
    /\ [][CallsOnlyAfterGrowth]_vars
    /\ (pc # "idle") ~> (pc = "idle")

\* A call has returned after recording a match of two or more fragments
\* that reserves characters, built by calls nested to the depth of the
\* pattern
C17_Witness ==
    /\ DetectDone
    /\ Len(pattern) >= 2
    /\ \E n \in 1..Len(matchParts) :
          /\ Len(matchParts[n]) = Len(pattern)
          /\ MatchPositions(matchParts[n]) # {}

====
